---- MODULE Spec2Model ----
(***************************************************************************)
(* Token-gated community access control (TokenGatedCommunityTool).         *)
(*                                                                         *)
(* The tool keeps three in-memory stores (communities, access_tokens,      *)
(* verification_cache) and is driven through execute(action, **kwargs).    *)
(* Every operation runs to completion before the next one starts, so each  *)
(* handler is one action.  `call' records the dispatched call, `called_at' *)
(* the clock reading it ran at and `ret' the ToolResult envelope it        *)
(* returned; `issued' collects the credentials handed out and `lookups'    *)
(* counts the holdings lookups made.                                       *)
(*                                                                         *)
(* time.time() is a float number of seconds; the model counts the clock    *)
(* in ticks of 1/TicksPerSecond seconds so that int(...) truncation and    *)
(* the one-second resolution of community ids are visible.  A handler      *)
(* reads the clock once (all its time.time() calls see the same instant).  *)
(***************************************************************************)
EXTENDS Integers, Sequences, FiniteSets, TLC

VARIABLES communities, access_tokens, verification_cache, _wallet_address,
          now, call, called_at, ret, issued, lookups

vars == <<communities, access_tokens, verification_cache, _wallet_address,
          now, call, called_at, ret, issued, lookups>>

stores == <<communities, access_tokens, verification_cache>>

(***************************************************************************)
(* Bounds of the model.                                                    *)
(***************************************************************************)
TicksPerSecond == 2
MaxTicks == 2
MaxCommunities == 1
MaxLookups == 2
MaxTokens == 1

(***************************************************************************)
(* Program constants.                                                      *)
(***************************************************************************)
cache_expiration == 300

\* Python None, as it prints in an f-string.
None == "None"

Wallets == {"w1", "w2"}
CallerWallets == {None, "w1"}
Names == {"club"}
TokenAddresses == {"mintA"}
CollectionAddresses == {"collB"}
TokenTypes == {"fungible", "nft", "multi"}
AccessLevels == {"member", "moderator", "admin"}
Blockchains == {"solana", "ethereum"}
Amounts == {5, 10}
Holdings == {2, 5, 10}
NftHoldings == {<<>>, <<"nft1">>}
Expirations == {<<1>>, <<300>>}

\* An absent optional number is the empty sequence, a present one <<n>>.
NoNumber == <<>>

\* Python truthiness of an optional string argument: None and "" are falsy.
Falsy(s) == s = None \/ s = ""

InSeq(x, s) == \E i \in 1..Len(s) : s[i] = x

\* list.remove(x): drops the first occurrence of x.
RECURSIVE RemoveFirst(_, _)
RemoveFirst(s, x) ==
    IF s = <<>> THEN <<>>
    ELSE IF Head(s) = x THEN Tail(s)
    ELSE <<Head(s)>> \o RemoveFirst(Tail(s), x)

\* int(t) for a non-negative clock reading t given in ticks.
IntSeconds(t) == t \div TicksPerSecond

\* SocialFiBaseTool.format_timestamp: an ISO string determined by the instant.
format_timestamp(t) == "iso:" \o ToString(t)

\* hashlib.md5(name.encode()).hexdigest()[:8]
NameDigest(name) == "md5" \o name

community_id_of(t, name) ==
    "community_" \o ToString(IntSeconds(t)) \o "_" \o NameDigest(name)

\* ToolResult envelopes.
Error(msg) == [status |-> "error", error |-> msg]
Success(payload) == [status |-> "success", result |-> payload]

\* Caught with the exception let through to the caller.
CaughtNot(action, e) == [status |-> "raised", error |-> e]

\* except Exception as e: the envelope execute returns for an operation that raised.
Caught(action, e) ==
    Error("Error executing token-gated community action " \o action \o ": " \o e)

NotFound(cid) == Error("Community with ID " \o cid \o " not found")
WalletRequired == Error("Wallet address is required")

Roles == <<"admins", "moderators", "members">>

\* f"{access_level}s"
Plural(level) == level \o "s"

TotalMembers(m) == Len(m["admins"]) + Len(m["moderators"]) + Len(m["members"])

(***************************************************************************)
(* The result of a 'multi' verification holds the community's requirements *)
(* dict itself, not a copy: what it shows follows every later change that   *)
(* configure_requirements makes to that dict.  Such a field is kept as a    *)
(* reference to the dict of the stored community; when create_community     *)
(* replaces the community by a new one, the old dict is out of reach of     *)
(* every handler and the reference becomes the value the dict had.          *)
(***************************************************************************)
LiveRequirements(cid) == [ref |-> "requirements", community_id |-> cid]

\* The payload as a reader of the result sees it at the current state.
Shown(data) ==
    IF "requirements" \in DOMAIN data
          /\ data.requirements = LiveRequirements(data.community_id)
    THEN [data EXCEPT !.requirements = communities[data.community_id].requirements]
    ELSE data

\* The cache once the community stored under cid is replaced by another.
Detached(cid) ==
    [k \in DOMAIN verification_cache |->
        LET e == verification_cache[k] IN
        IF e.data.community_id = cid /\ cid \in DOMAIN communities
        THEN [e EXCEPT !.data = Shown(e.data)]
        ELSE e]

(***************************************************************************)
(* create_community                                                        *)
(***************************************************************************)
\* NewCommunity that counts the initial admin in total_members.
NewCommunityCounted(cid, name, token_address, min_token_amount, token_type, nft) ==
    [ id |-> cid,
      name |-> name,
      description |-> "",
      created_at |-> format_timestamp(now),
      created_by |-> IF Falsy(_wallet_address) THEN "anonymous" ELSE _wallet_address,
      requirements |-> [ token_type |-> token_type,
                         token_address |-> token_address,
                         min_token_amount |-> min_token_amount,
                         nft_collection_address |-> nft ],
      members |-> [ admins |-> IF Falsy(_wallet_address) THEN <<>> ELSE <<_wallet_address>>,
                    moderators |-> <<>>,
                    members |-> <<>> ],
      stats |-> [ total_members |-> IF Falsy(_wallet_address) THEN 0 ELSE 1,
                  access_requests |-> 0, access_granted |-> 0, access_denied |-> 0 ] ]

\* The community structure built by create_community.
NewCommunity(cid, name, token_address, min_token_amount, token_type, nft) ==
    [ id |-> cid,
      name |-> name,
      description |-> "",
      created_at |-> format_timestamp(now),
      created_by |-> IF Falsy(_wallet_address) THEN "anonymous" ELSE _wallet_address,
      requirements |-> [ token_type |-> token_type,
                         token_address |-> token_address,
                         min_token_amount |-> min_token_amount,
                         nft_collection_address |-> nft ],
      members |-> [ admins |-> IF Falsy(_wallet_address) THEN <<>> ELSE <<_wallet_address>>,
                    moderators |-> <<>>,
                    members |-> <<>> ],
      stats |-> [ total_members |-> 0, access_requests |-> 0,
                  access_granted |-> 0, access_denied |-> 0 ] ]

\* dict assignment d[k] = v
Put(d, k, v) == [x \in DOMAIN d \cup {k} |-> IF x = k THEN v ELSE d[x]]

CreateCommunity(name, token_address, min_token_amount, token_type, nft) ==
    /\ call' = [ action |-> "create_community", community_name |-> name,
                 token_address |-> token_address, min_token_amount |-> min_token_amount,
                 token_type |-> token_type, nft_collection_address |-> nft ]
    /\ IF Falsy(name)
       THEN /\ ret' = Error("Community name is required")
            /\ UNCHANGED <<communities, verification_cache>>
       ELSE IF Falsy(token_address) /\ Falsy(nft)
       THEN /\ ret' = Error("Either token_address or nft_collection_address is required")
            /\ UNCHANGED <<communities, verification_cache>>
       ELSE LET cid == community_id_of(now, name)
                c == NewCommunity(cid, name, token_address, min_token_amount, token_type, nft)
            IN /\ Cardinality(DOMAIN communities \cup {cid}) <= MaxCommunities
               /\ communities' = Put(communities, cid, c)
               /\ verification_cache' = Detached(cid)
               /\ ret' = Success([ community_id |-> cid, name |-> name,
                                   requirements |-> c.requirements,
                                   created_at |-> c.created_at,
                                   message |-> "Community created successfully" ])
    /\ called_at' = now
    /\ UNCHANGED <<access_tokens, _wallet_address, now, issued, lookups>>

(***************************************************************************)
(* add_member                                                              *)
(***************************************************************************)
\* AddLoop without the early return for a wallet already in the requested role.
RECURSIVE AddLoopNoReturn(_, _, _, _)
AddLoopNoReturn(m, w, level, i) ==
    IF i > Len(Roles) THEN [members |-> m, already |-> FALSE]
    ELSE LET role == Roles[i] IN
         IF InSeq(w, m[role])
         THEN AddLoopNoReturn([m EXCEPT ![role] = RemoveFirst(m[role], w)], w, level, i + 1)
         ELSE AddLoopNoReturn(m, w, level, i + 1)

\* AddLoop without the removal from the current role.
RECURSIVE AddLoopKeep(_, _, _, _)
AddLoopKeep(m, w, level, i) ==
    IF i > Len(Roles) THEN [members |-> m, already |-> FALSE]
    ELSE LET role == Roles[i] IN
         IF InSeq(w, m[role]) /\ role = Plural(level)
         THEN [members |-> m, already |-> TRUE]
         ELSE AddLoopKeep(m, w, level, i + 1)

\* The loop over community["members"].items(): a wallet found in the
\* requested role ends the call, one found in another role is removed.
RECURSIVE AddLoop(_, _, _, _)
AddLoop(m, w, level, i) ==
    IF i > Len(Roles) THEN [members |-> m, already |-> FALSE]
    ELSE LET role == Roles[i] IN
         IF InSeq(w, m[role])
         THEN IF role = Plural(level)
              THEN [members |-> m, already |-> TRUE]
              ELSE AddLoop([m EXCEPT ![role] = RemoveFirst(m[role], w)], w, level, i + 1)
         ELSE AddLoop(m, w, level, i + 1)

\* RoleKey that files every new member under "members".
RoleKeyMembers(level) == "members"

\* role_key = f"{access_level}s": the bucket a newly added wallet is appended to.
RoleKey(level) == Plural(level)

\* The tail of add_member: the recomputed member count and the envelope.
AddMemberTotal(m) == TotalMembers(m)
MemberAdded(cid, w, level) ==
    Success([ community_id |-> cid, wallet_address |-> w, access_level |-> level,
              message |-> "Member added successfully" ])

\* AddAuthorized with the check skipped when no caller wallet is loaded.
AddAuthorizedAnon(c, level) ==
    level \in {"moderator", "admin"} =>
        (Falsy(_wallet_address) \/ InSeq(_wallet_address, c.members["admins"]))

\* Only admins can add moderators or admins.
AddAuthorized(c, level) ==
    level \in {"moderator", "admin"} =>
        (~Falsy(_wallet_address) /\ InSeq(_wallet_address, c.members["admins"]))

AddMember(cid, w, level) ==
    /\ call' = [ action |-> "add_member", community_id |-> cid,
                 wallet_address |-> w, access_level |-> level ]
    /\ IF Falsy(cid) \/ cid \notin DOMAIN communities
       THEN ret' = NotFound(cid) /\ UNCHANGED communities
       ELSE IF Falsy(w)
       THEN ret' = WalletRequired /\ UNCHANGED communities
       ELSE IF level \notin {"member", "moderator", "admin"}
       THEN ret' = Error("Invalid access level: " \o level) /\ UNCHANGED communities
       ELSE LET c == communities[cid] IN
            IF ~AddAuthorized(c, level)
            THEN /\ ret' = Error("Only community admins can add moderators or admins")
                 /\ UNCHANGED communities
            ELSE LET r == AddLoop(c.members, w, level, 1) IN
                 IF r.already
                 THEN /\ communities' = [communities EXCEPT ![cid].members = r.members]
                      /\ ret' = Success([ community_id |-> cid, wallet_address |-> w,
                                          access_level |-> level,
                                          message |-> "Wallet is already a " \o level \o " of this community" ])
                 ELSE LET m2 == [r.members EXCEPT ![RoleKey(level)] = Append(@, w)] IN
                      /\ communities' = [communities EXCEPT
                                            ![cid].members = m2,
                                            ![cid].stats.total_members = AddMemberTotal(m2)]
                      /\ ret' = MemberAdded(cid, w, level)
    /\ called_at' = now
    /\ UNCHANGED <<access_tokens, verification_cache, _wallet_address, now, issued, lookups>>

(***************************************************************************)
(* configure_requirements                                                  *)
(***************************************************************************)
\* ConfigureDenied that also turns away a caller with no wallet loaded.
ConfigureDeniedStrict(c) ==
    Falsy(_wallet_address) \/ ~InSeq(_wallet_address, c.members["admins"])

\* The caller is known and is not an admin of the community.
ConfigureDenied(c) ==
    ~Falsy(_wallet_address) /\ ~InSeq(_wallet_address, c.members["admins"])

\* UpdateRequirements that replaces the address and type fields outright.
UpdateRequirementsAll(req, token_address, min_token_amount, token_type, nft) ==
    [ token_type |-> token_type,
      token_address |-> token_address,
      min_token_amount |-> IF min_token_amount = NoNumber THEN req.min_token_amount
                           ELSE min_token_amount[1],
      nft_collection_address |-> nft ]

\* Partial update: an argument that is None (falsy) keeps the stored field.
UpdateRequirements(req, token_address, min_token_amount, token_type, nft) ==
    [ token_type |-> IF Falsy(token_type) THEN req.token_type ELSE token_type,
      token_address |-> IF Falsy(token_address) THEN req.token_address ELSE token_address,
      min_token_amount |-> IF min_token_amount = NoNumber THEN req.min_token_amount
                           ELSE min_token_amount[1],
      nft_collection_address |-> IF Falsy(nft) THEN req.nft_collection_address ELSE nft ]

Configured(cid, req) ==
    Success([ community_id |-> cid, requirements |-> req,
              updated_at |-> format_timestamp(now),
              message |-> "Community requirements updated successfully" ])

\* ConfigureOutcome that files the requirements of an unknown id as a new record.
ConfigureOutcomeUpsert(cid, token_address, min_token_amount, token_type, nft) ==
    IF Falsy(cid) THEN [ret |-> NotFound(cid), communities |-> communities]
    ELSE LET blank == [ token_type |-> "fungible", token_address |-> None,
                        min_token_amount |-> 1, nft_collection_address |-> None ]
             old == IF cid \in DOMAIN communities
                    THEN communities[cid]
                    ELSE [ id |-> cid, name |-> "", description |-> "",
                           created_at |-> format_timestamp(now),
                           created_by |-> "anonymous", requirements |-> blank,
                           members |-> [admins |-> <<>>, moderators |-> <<>>,
                                        members |-> <<>>],
                           stats |-> [ total_members |-> 0, access_requests |-> 0,
                                       access_granted |-> 0, access_denied |-> 0 ] ]
             req == UpdateRequirements(old.requirements, token_address,
                                       min_token_amount, token_type, nft) IN
         IF ConfigureDenied(old)
         THEN [ ret |-> Error("Only community admins can configure requirements"),
                communities |-> communities ]
         ELSE [ ret |-> Configured(cid, req),
                communities |-> Put(communities, cid, [old EXCEPT !.requirements = req]) ]

\* _configure_requirements: the envelope it returns and the community store
\* it leaves behind.
ConfigureOutcome(cid, token_address, min_token_amount, token_type, nft) ==
    IF Falsy(cid) \/ cid \notin DOMAIN communities
    THEN [ret |-> NotFound(cid), communities |-> communities]
    ELSE LET c == communities[cid] IN
         IF ConfigureDenied(c)
         THEN [ ret |-> Error("Only community admins can configure requirements"),
                communities |-> communities ]
         ELSE LET req == UpdateRequirements(c.requirements, token_address,
                                            min_token_amount, token_type, nft) IN
              [ ret |-> Configured(cid, req),
                communities |-> [communities EXCEPT ![cid].requirements = req] ]

\* ConfigureRequirements that drops the cached verifications of the community
\* whose requirements it has changed.
ConfigureRequirementsInvalidating(cid, token_address, min_token_amount, token_type, nft) ==
    LET o == ConfigureOutcome(cid, token_address, min_token_amount, token_type, nft)
        kept == {k \in DOMAIN verification_cache :
                    \/ o.ret.status # "success"
                    \/ verification_cache[k].data.community_id # cid} IN
    /\ call' = [ action |-> "configure_requirements", community_id |-> cid,
                 token_address |-> token_address, min_token_amount |-> min_token_amount,
                 token_type |-> token_type, nft_collection_address |-> nft ]
    /\ ret' = o.ret
    /\ communities' = o.communities
    /\ verification_cache' = [k \in kept |-> verification_cache[k]]
    /\ called_at' = now
    /\ UNCHANGED <<access_tokens, _wallet_address, now, issued, lookups>>

ConfigureRequirements(cid, token_address, min_token_amount, token_type, nft) ==
    LET o == ConfigureOutcome(cid, token_address, min_token_amount, token_type, nft) IN
    /\ call' = [ action |-> "configure_requirements", community_id |-> cid,
                 token_address |-> token_address, min_token_amount |-> min_token_amount,
                 token_type |-> token_type, nft_collection_address |-> nft ]
    /\ ret' = o.ret
    /\ communities' = o.communities
    /\ called_at' = now
    /\ UNCHANGED <<access_tokens, verification_cache, _wallet_address, now, issued, lookups>>

(***************************************************************************)
(* verify_access                                                           *)
(***************************************************************************)
\* IsMember that overlooks the plain members.
IsMemberStaff(c, w) ==
    \/ InSeq(w, c.members["admins"])
    \/ InSeq(w, c.members["moderators"])

\* wallet_address in admins or in moderators or in members
IsMember(c, w) ==
    \/ InSeq(w, c.members["admins"])
    \/ InSeq(w, c.members["moderators"])
    \/ InSeq(w, c.members["members"])

cache_key_of(w, cid, blockchain) == w \o "_" \o cid \o "_" \o blockchain

\* CacheFresh that still uses an entry that is exactly cache_expiration old.
CacheFreshInclusive(entry, t) ==
    t - entry.timestamp <= cache_expiration * TicksPerSecond

\* CacheFresh with the comparison turned round.
CacheFreshReversed(entry, t) ==
    t - entry.timestamp > cache_expiration * TicksPerSecond

\* Only use the cache if the entry is not expired.
CacheFresh(entry, t) ==
    t - entry.timestamp < cache_expiration * TicksPerSecond

CacheHit(key, t) ==
    key \in DOMAIN verification_cache /\ CacheFresh(verification_cache[key], t)

\* FungibleAccess that wants more than the threshold.
FungibleAccessStrict(holdings, min_amount) == holdings > min_amount

\* has_access = holdings >= min_amount
FungibleAccess(holdings, min_amount) == holdings >= min_amount

\* The result payload of a fresh verification; holdings, owned_nfts and multi
\* are the answers of the holdings lookups.
FreshResult(cid, w, blockchain, req, holdings, owned_nfts, multi) ==
    IF req.token_type = "fungible"
    THEN [ community_id |-> cid, wallet_address |-> w,
           has_access |-> FungibleAccess(holdings, req.min_token_amount),
           token_address |-> req.token_address,
           required_amount |-> req.min_token_amount,
           actual_amount |-> holdings,
           blockchain |-> blockchain,
           verification_time |-> format_timestamp(now) ]
    ELSE IF req.token_type = "nft"
    THEN [ community_id |-> cid, wallet_address |-> w,
           has_access |-> Len(owned_nfts) > 0,
           nft_collection |-> req.nft_collection_address,
           owned_nfts |-> owned_nfts,
           required_nfts |-> 1,
           blockchain |-> blockchain,
           verification_time |-> format_timestamp(now) ]
    ELSE [ community_id |-> cid, wallet_address |-> w,
           has_access |-> multi,
           requirements |-> LiveRequirements(cid),
           blockchain |-> blockchain,
           verification_time |-> format_timestamp(now) ]

\* UpdateStats that counts the requests and the grants only.
UpdateStatsGranted(stats, has_access) ==
    [stats EXCEPT !.access_requests = @ + 1,
                  !.access_granted = IF has_access THEN @ + 1 ELSE @]

\* Update stats: one request, and one of granted / denied.
UpdateStats(stats, has_access) ==
    [stats EXCEPT !.access_requests = @ + 1,
                  !.access_granted = IF has_access THEN @ + 1 ELSE @,
                  !.access_denied = IF has_access THEN @ ELSE @ + 1]

\* VerifyAccessOutcome without the test for a missing wallet.
VerifyAccessOutcomeAnyWallet(cid, w, blockchain, holdings, owned_nfts, multi) ==
    LET same(r) == [ ret |-> r, communities |-> communities,
                     cache |-> verification_cache, fresh |-> FALSE ] IN
    IF Falsy(cid) \/ cid \notin DOMAIN communities THEN same(NotFound(cid))
    ELSE LET c == communities[cid]
             key == cache_key_of(w, cid, blockchain) IN
         IF IsMember(c, w)
         THEN same(Success([ community_id |-> cid, wallet_address |-> w,
                             has_access |-> TRUE, reason |-> "Already a member",
                             verification_time |-> format_timestamp(now) ]))
         ELSE IF CacheHit(key, now)
         THEN same(Success(verification_cache[key].data))
         ELSE LET result == FreshResult(cid, w, blockchain, c.requirements,
                                        holdings, owned_nfts, multi) IN
              [ ret |-> Success(result),
                communities |-> [communities EXCEPT
                                    ![cid].stats = UpdateStats(@, result.has_access)],
                cache |-> Put(verification_cache, key,
                              [timestamp |-> now, data |-> result]),
                fresh |-> TRUE ]

\* _verify_access as a function of the stores: the envelope it returns and the
\* stores it leaves behind.  `fresh' tells that the holdings were looked up.
VerifyAccessOutcome(cid, w, blockchain, holdings, owned_nfts, multi) ==
    LET same(r) == [ ret |-> r, communities |-> communities,
                     cache |-> verification_cache, fresh |-> FALSE ] IN
    IF Falsy(cid) \/ cid \notin DOMAIN communities THEN same(NotFound(cid))
    ELSE IF Falsy(w) THEN same(WalletRequired)
    ELSE LET c == communities[cid]
             key == cache_key_of(w, cid, blockchain) IN
         IF IsMember(c, w)
         THEN same(Success([ community_id |-> cid, wallet_address |-> w,
                             has_access |-> TRUE, reason |-> "Already a member",
                             verification_time |-> format_timestamp(now) ]))
         ELSE IF CacheHit(key, now)
         THEN same(Success(verification_cache[key].data))
         ELSE LET result == FreshResult(cid, w, blockchain, c.requirements,
                                        holdings, owned_nfts, multi) IN
              [ ret |-> Success(result),
                communities |-> [communities EXCEPT
                                    ![cid].stats = UpdateStats(@, result.has_access)],
                cache |-> Put(verification_cache, key,
                              [timestamp |-> now, data |-> result]),
                fresh |-> TRUE ]

\* The holdings lookups are counted, and capped at MaxLookups.
RoomForLookup(o) == o.fresh => lookups < MaxLookups
CountLookup(o) == lookups' = IF o.fresh THEN lookups + 1 ELSE lookups

VerifyAccess(cid, w, blockchain, holdings, owned_nfts, multi) ==
    LET o == VerifyAccessOutcome(cid, w, blockchain, holdings, owned_nfts, multi) IN
    /\ RoomForLookup(o)
    /\ CountLookup(o)
    /\ call' = [ action |-> "verify_access", community_id |-> cid,
                 wallet_address |-> w, blockchain |-> blockchain ]
    /\ ret' = o.ret
    /\ communities' = o.communities
    /\ verification_cache' = o.cache
    /\ called_at' = now
    /\ UNCHANGED <<access_tokens, _wallet_address, now, issued>>

(***************************************************************************)
(* generate_access_token                                                   *)
(***************************************************************************)
\* hashlib.sha256(f"{wallet_address}_{community_id}_{time.time()}").hexdigest()
token_id_of(w, cid, t) == "sha256:" \o w \o "_" \o cid \o "_" \o ToString(t)

TokenFields == << "token_id", "community_id", "wallet_address", "access_level",
                  "issued_at", "expires_at" >>

\* json.dumps of a dict: its items in insertion order.
JsonDumps(d, fields) == [i \in 1..Len(fields) |-> <<fields[i], d[fields[i]]>>]

\* json.loads of an object: a dict; a repeated key keeps its last value.
JsonLoads(text) ==
    [k \in {text[i][1] : i \in 1..Len(text)} |->
        LET last == CHOOSE i \in 1..Len(text) :
                        /\ text[i][1] = k
                        /\ \A j \in (i + 1)..Len(text) : text[j][1] # k
        IN text[last][2]]

\* base64.b64encode(...).decode(): a string that b64decode accepts.
B64Encode(text) == [enc |-> "b64", text |-> text]

EncodeToken(token_data) == B64Encode(JsonDumps(token_data, TokenFields))

\* dict.get(k, default)
Get(d, k, default) == IF k \in DOMAIN d THEN d[k] ELSE default

\* time.time() + expiration, for a number of seconds expiration.
ExpiresAt(t, expiration) == t + expiration * TicksPerSecond

\* time.time() + None raises a TypeError.
NoneAdded == "unsupported operand type(s) for +: 'float' and 'NoneType'"

\* AccessDenied that only looks at the status of the verification.
AccessDeniedOnError(verify_result) == verify_result.status # "success"

\* verify_result.status != "success" or not verify_result.result.get("has_access", False)
AccessDenied(verify_result) ==
    \/ verify_result.status # "success"
    \/ ~Get(verify_result.result, "has_access", FALSE)

GenerateAccessToken(cid, w, level, expiration, holdings, owned_nfts, multi) ==
    /\ call' = [ action |-> "generate_access_token", community_id |-> cid,
                 wallet_address |-> w, access_level |-> level,
                 token_expiration |-> expiration ]
    /\ IF Falsy(cid) \/ cid \notin DOMAIN communities
       THEN ret' = NotFound(cid) /\ UNCHANGED <<stores, issued, lookups>>
       ELSE IF Falsy(w)
       THEN ret' = WalletRequired /\ UNCHANGED <<stores, issued, lookups>>
       ELSE LET o == VerifyAccessOutcome(cid, w, "solana", holdings, owned_nfts, multi) IN
            /\ RoomForLookup(o)
            /\ CountLookup(o)
            /\ communities' = o.communities
            /\ verification_cache' = o.cache
            /\ IF AccessDenied(o.ret)
               THEN /\ ret' = Error("Wallet does not have access to this community")
                    /\ UNCHANGED <<access_tokens, issued>>
               ELSE IF expiration = NoNumber
               THEN /\ ret' = Caught("generate_access_token", NoneAdded)
                    /\ UNCHANGED <<access_tokens, issued>>
               ELSE LET token_id == token_id_of(w, cid, now)
                        token_data == [ token_id |-> token_id, community_id |-> cid,
                                        wallet_address |-> w, access_level |-> level,
                                        issued_at |-> now,
                                        expires_at |-> ExpiresAt(now, expiration[1]) ]
                        encoded_token == EncodeToken(token_data)
                    IN /\ Cardinality(issued \cup {encoded_token}) <= MaxTokens
                       /\ access_tokens' = Put(access_tokens, token_id, token_data)
                       /\ issued' = issued \cup {encoded_token}
                       /\ ret' = Success([ access_token |-> encoded_token,
                                           token_id |-> token_id,
                                           community_id |-> cid,
                                           wallet_address |-> w,
                                           access_level |-> level,
                                           issued_at |-> format_timestamp(now),
                                           expires_at |-> format_timestamp(ExpiresAt(now, expiration[1])),
                                           message |-> "Access token generated successfully" ])
    /\ called_at' = now
    /\ UNCHANGED <<_wallet_address, now>>

(***************************************************************************)
(* verify_token                                                            *)
(***************************************************************************)
\* TimeRemaining rounded up to the next whole second.
TimeRemainingCeil(expires_at, t) ==
    (expires_at - t + TicksPerSecond - 1) \div TicksPerSecond

\* Seconds left, int(expires_at - time.time()), for expires_at >= now.
TimeRemaining(expires_at, t) == IntSeconds(expires_at - t)

\* Expired that already turns the credential away at expires_at itself.
ExpiredEarly(t, expires_at) == t >= expires_at

\* Expired with its operands swapped.
ExpiredSwapped(t, expires_at) == expires_at > t

\* time.time() > token_data.get("expires_at", 0)
Expired(t, expires_at) == t > expires_at

\* KnownToken that only wants a token_id to be present in the payload.
KnownTokenAny(token_id) == token_id # None

\* token_id in self.access_tokens
KnownToken(token_id) == token_id \in DOMAIN access_tokens

VerifyTokenResult(access_token) ==
    IF access_token.enc = "none" THEN Error("Access token is required")
    ELSE IF access_token.enc # "b64" THEN Error("Error verifying token: decode")
    ELSE LET token_data == JsonLoads(access_token.text)
             token_id == Get(token_data, "token_id", None)
             expires_at == Get(token_data, "expires_at", 0)
             community_id == Get(token_data, "community_id", None) IN
         IF ~KnownToken(token_id) THEN Error("Invalid access token")
         ELSE IF Expired(now, expires_at) THEN Error("Access token has expired")
         ELSE IF community_id \notin DOMAIN communities
         THEN Error("Community no longer exists")
         ELSE Success([ token_id |-> token_id,
                        is_valid |-> TRUE,
                        community_id |-> community_id,
                        wallet_address |-> Get(token_data, "wallet_address", None),
                        access_level |-> Get(token_data, "access_level", None),
                        expires_at |-> format_timestamp(expires_at),
                        time_remaining_seconds |-> TimeRemaining(expires_at, now) ])

\* VerifyToken that drops the record of a credential it finds expired.
VerifyTokenPurging(access_token) ==
    LET r == VerifyTokenResult(access_token)
        gone == IF r = Error("Access token has expired")
                THEN {Get(JsonLoads(access_token.text), "token_id", None)}
                ELSE {} IN
    /\ call' = [action |-> "verify_token", access_token |-> access_token]
    /\ ret' = r
    /\ access_tokens' = [k \in DOMAIN access_tokens \ gone |-> access_tokens[k]]
    /\ called_at' = now
    /\ UNCHANGED <<communities, verification_cache, _wallet_address, now, issued, lookups>>

VerifyToken(access_token) ==
    /\ call' = [action |-> "verify_token", access_token |-> access_token]
    /\ ret' = VerifyTokenResult(access_token)
    /\ called_at' = now
    /\ UNCHANGED <<stores, _wallet_address, now, issued, lookups>>

(***************************************************************************)
(* remove_member, check_member_status                                      *)
(***************************************************************************)
RECURSIVE RemoveAll(_, _, _)
RemoveAll(m, w, i) ==
    IF i > Len(Roles) THEN m
    ELSE LET role == Roles[i] IN
         IF InSeq(w, m[role])
         THEN RemoveAll([m EXCEPT ![role] = RemoveFirst(m[role], w)], w, i + 1)
         ELSE RemoveAll(m, w, i + 1)

RemoveMember(cid, w) ==
    /\ call' = [action |-> "remove_member", community_id |-> cid, wallet_address |-> w]
    /\ IF Falsy(cid) \/ cid \notin DOMAIN communities
       THEN ret' = NotFound(cid) /\ UNCHANGED communities
       ELSE IF Falsy(w)
       THEN ret' = WalletRequired /\ UNCHANGED communities
       ELSE LET c == communities[cid] IN
            IF ~IsMember(c, w)
            THEN /\ ret' = Error("Wallet is not a member of this community")
                 /\ UNCHANGED communities
            ELSE LET m2 == RemoveAll(c.members, w, 1) IN
                 /\ communities' = [communities EXCEPT
                                       ![cid].members = m2,
                                       ![cid].stats.total_members = TotalMembers(m2)]
                 /\ ret' = Success([ community_id |-> cid, wallet_address |-> w,
                                     message |-> "Member removed successfully" ])
    /\ called_at' = now
    /\ UNCHANGED <<access_tokens, verification_cache, _wallet_address, now, issued, lookups>>

\* The role a wallet holds: the singular of the first bucket that lists it.
RoleOf(c, w) ==
    IF InSeq(w, c.members["admins"]) THEN "admin"
    ELSE IF InSeq(w, c.members["moderators"]) THEN "moderator"
    ELSE IF InSeq(w, c.members["members"]) THEN "member"
    ELSE None

CheckMemberStatusResult(cid, w) ==
    IF Falsy(cid) \/ cid \notin DOMAIN communities THEN NotFound(cid)
    ELSE IF Falsy(w) THEN WalletRequired
    ELSE LET c == communities[cid] IN
         Success([ community_id |-> cid, wallet_address |-> w,
                   is_member |-> IsMember(c, w),
                   access_level |-> RoleOf(c, w) ])

CheckMemberStatus(cid, w) ==
    /\ call' = [action |-> "check_member_status", community_id |-> cid, wallet_address |-> w]
    /\ ret' = CheckMemberStatusResult(cid, w)
    /\ called_at' = now
    /\ UNCHANGED <<stores, _wallet_address, now, issued, lookups>>

(***************************************************************************)
(* list_communities, get_community_stats, get_members, unknown actions     *)
(***************************************************************************)
\* One entry of communities_list.
Listed(cid) ==
    LET c == communities[cid] IN
    [ id |-> cid, name |-> c.name, description |-> c.description,
      requirements |-> c.requirements,
      total_members |-> c.stats.total_members,
      created_at |-> c.created_at ]

\* The entries are kept as a set: the order of the list (the insertion order
\* of the store) is not represented.
ListCommunities ==
    /\ call' = [action |-> "list_communities"]
    /\ ret' = Success([ communities |-> {Listed(cid) : cid \in DOMAIN communities},
                        count |-> Cardinality(DOMAIN communities),
                        timestamp |-> format_timestamp(now) ])
    /\ called_at' = now
    /\ UNCHANGED <<stores, _wallet_address, now, issued, lookups>>

\* GetCommunityStats that reports the stored total_members and stores nothing.
GetCommunityStatsStale(cid) ==
    /\ call' = [action |-> "get_community_stats", community_id |-> cid]
    /\ IF Falsy(cid) \/ cid \notin DOMAIN communities
       THEN ret' = NotFound(cid)
       ELSE LET c == communities[cid] IN
            ret' = Success([ community_id |-> cid, name |-> c.name,
                             stats |-> [ total_members |-> c.stats.total_members,
                                         admin_count |-> Len(c.members["admins"]),
                                         moderator_count |-> Len(c.members["moderators"]),
                                         member_count |-> Len(c.members["members"]),
                                         access_requests |-> c.stats.access_requests,
                                         access_granted |-> c.stats.access_granted,
                                         access_denied |-> c.stats.access_denied ],
                             requirements |-> c.requirements,
                             created_at |-> c.created_at,
                             timestamp |-> format_timestamp(now) ])
    /\ called_at' = now
    /\ UNCHANGED <<communities, access_tokens, verification_cache, _wallet_address,
                   now, issued, lookups>>

GetCommunityStats(cid) ==
    /\ call' = [action |-> "get_community_stats", community_id |-> cid]
    /\ IF Falsy(cid) \/ cid \notin DOMAIN communities
       THEN ret' = NotFound(cid) /\ UNCHANGED communities
       ELSE LET c == communities[cid]
                admin_count == Len(c.members["admins"])
                moderator_count == Len(c.members["moderators"])
                member_count == Len(c.members["members"])
                total_members == admin_count + moderator_count + member_count
            IN /\ communities' = [communities EXCEPT
                                     ![cid].stats.total_members = total_members]
               /\ ret' = Success([ community_id |-> cid, name |-> c.name,
                                   stats |-> [ total_members |-> total_members,
                                               admin_count |-> admin_count,
                                               moderator_count |-> moderator_count,
                                               member_count |-> member_count,
                                               access_requests |-> c.stats.access_requests,
                                               access_granted |-> c.stats.access_granted,
                                               access_denied |-> c.stats.access_denied ],
                                   requirements |-> c.requirements,
                                   created_at |-> c.created_at,
                                   timestamp |-> format_timestamp(now) ])
    /\ called_at' = now
    /\ UNCHANGED <<access_tokens, verification_cache, _wallet_address, now, issued, lookups>>

\* The buckets a get_members call reports: all of them, or the one of access_level.
GetMembersResult(cid, level) ==
    IF Falsy(cid) \/ cid \notin DOMAIN communities THEN NotFound(cid)
    ELSE LET c == communities[cid]
             shown == IF Falsy(level) THEN {"admins", "moderators", "members"}
                      ELSE {Plural(level)} IN
         Success([ community_id |-> cid,
                   members |-> [r \in shown |-> c.members[r]] ])

GetMembers(cid, level) ==
    /\ call' = [action |-> "get_members", community_id |-> cid, access_level |-> level]
    /\ ret' = GetMembersResult(cid, level)
    /\ called_at' = now
    /\ UNCHANGED <<stores, _wallet_address, now, issued, lookups>>

\* The actions execute dispatches on.
KnownActions ==
    { "create_community", "configure_requirements", "verify_access",
      "generate_access_token", "verify_token", "list_communities",
      "get_community_stats", "add_member", "remove_member",
      "check_member_status", "get_members" }

\* The else branch of execute; a missing action is None.
UnknownAction(action) ==
    /\ action \notin KnownActions
    /\ call' = [action |-> action]
    /\ ret' = Error("Unknown token-gated community action: " \o action)
    /\ called_at' = now
    /\ UNCHANGED <<stores, _wallet_address, now, issued, lookups>>

(***************************************************************************)
(* GameAssetManager.transfer_asset, behind the execute of that tool.  The  *)
(* tool keeps no state besides the wallet of its caller; `owned' is the    *)
(* quantity under which the simulated inventory of the caller lists the    *)
(* asset (absent when it does not list it).                                *)
(***************************************************************************)
\* The names the module binds at import time.
GameModuleNames ==
    { "Dict", "Any", "Optional", "List", "Union", "logging", "GameFiBaseTool",
      "ToolResult" }

\* except Exception as e, in GameAssetManager.execute.
GameCaught(action, e) ==
    Error("Error executing game asset action " \o action \o ": " \o e)

\* Evaluating the global name `time' in the result of _transfer_asset.
NameError(name) == "name '" \o name \o "' is not defined"

TransferAssetResult(game_id, asset_id, recipient_address, quantity, owned) ==
    IF Falsy(_wallet_address)
    THEN Error("Wallet not loaded. Please load a wallet first.")
    ELSE IF Falsy(game_id) \/ Falsy(asset_id) \/ Falsy(recipient_address)
    THEN Error("Game ID, asset ID, and recipient address are required")
    ELSE IF owned = NoNumber
    THEN Error("You don't own any asset with ID " \o asset_id)
    ELSE IF owned[1] < quantity
    THEN Error("Insufficient quantity. You own " \o ToString(owned[1])
               \o " but tried to transfer " \o ToString(quantity) \o ".")
    ELSE IF "time" \notin GameModuleNames
    THEN GameCaught("transfer_asset", NameError("time"))
    ELSE Success([ transaction_id |-> "tx_" \o ToString(IntSeconds(now)) \o "_" \o asset_id,
                   sender |-> _wallet_address,
                   recipient |-> recipient_address,
                   game_id |-> game_id,
                   asset_id |-> asset_id,
                   quantity |-> quantity,
                   status |-> "completed",
                   timestamp |-> IntSeconds(now) ])

TransferAsset(game_id, asset_id, recipient_address, quantity, owned) ==
    /\ call' = [ action |-> "transfer_asset", game_id |-> game_id,
                 asset_id |-> asset_id, recipient_address |-> recipient_address,
                 quantity |-> quantity, owned |-> owned ]
    /\ ret' = TransferAssetResult(game_id, asset_id, recipient_address, quantity, owned)
    /\ called_at' = now
    /\ UNCHANGED <<stores, _wallet_address, now, issued, lookups>>

(***************************************************************************)
(* The clock.                                                              *)
(***************************************************************************)
\* The handlers run at the instants 0, 1, Period, Period + 1, 2 * Period, ...
\* (in ticks): a short gap of one tick, then a long gap that ends exactly
\* cache_expiration seconds after the instant before the short gap.
Period == cache_expiration * TicksPerSecond
TickCount(t) == 2 * (t \div Period) + (t % Period)
NextInstant(t) == IF t % Period = 0 THEN t + 1 ELSE t + (Period - 1)

Tick ==
    /\ TickCount(now) < MaxTicks
    /\ now' = NextInstant(now)
    /\ UNCHANGED <<communities, access_tokens, verification_cache, _wallet_address,
                   call, called_at, ret, issued, lookups>>

Init ==
    /\ communities = <<>>
    /\ access_tokens = <<>>
    /\ verification_cache = <<>>
    /\ _wallet_address \in CallerWallets
    /\ now = 0
    /\ call = [action |-> "none"]
    /\ called_at = 0
    /\ ret = [status |-> "none"]
    /\ issued = {}
    /\ lookups = 0

\* Identifiers a caller may pass: the stored ones, None and one never created.
Stored == DOMAIN communities
CommunityArgs == Stored \cup {None, "community_0_missing"}

\* Credentials a caller may present besides the issued ones: none at all,
\* bytes that do not decode, and well-formed payloads written by the caller
\* (under an id of their own or under an id taken from an issued credential).
NoToken == [enc |-> "none", text |-> <<>>]
Garbage == [enc |-> "raw", text |-> <<>>]
ForgedExpiry == (MaxTicks + 1) * Period
Forged ==
    { EncodeToken([ token_id |-> tid, community_id |-> cid, wallet_address |-> "w1",
                    access_level |-> "admin", issued_at |-> 0,
                    expires_at |-> ForgedExpiry ]) :
        tid \in {"sha256:forged"} \cup DOMAIN access_tokens, cid \in Stored }

\* Answers of the holdings lookups that the verification of cid can depend on.
Lookups(cid, holdings) ==
    LET tt == IF cid \in DOMAIN communities
              THEN communities[cid].requirements.token_type ELSE None IN
    IF tt = "fungible" THEN {<<h, <<>>, FALSE>> : h \in holdings}
    ELSE IF tt = "nft" THEN {<<0, n, FALSE>> : n \in NftHoldings}
    ELSE IF tt = "multi" THEN {<<0, <<>>, m>> : m \in BOOLEAN}
    ELSE {<<0, <<>>, FALSE>>}

CreateStep(names, tokens, amounts, types, collections) ==
    \E name \in names, ta \in tokens, a \in amounts, tt \in types, nft \in collections :
       CreateCommunity(name, ta, a, tt, nft)

ConfigureStep(cids, tokens, amounts, types, collections) ==
    \E cid \in cids, ta \in tokens, a \in amounts, tt \in types, nft \in collections :
       ConfigureRequirements(cid, ta, a, tt, nft)

AddMemberStep(cids, wallets, levels) ==
    \E cid \in cids, w \in wallets, level \in levels : AddMember(cid, w, level)

RemoveMemberStep(cids, wallets) ==
    \E cid \in cids, w \in wallets : RemoveMember(cid, w)

CheckMemberStatusStep(cids, wallets) ==
    \E cid \in cids, w \in wallets : CheckMemberStatus(cid, w)

VerifyAccessStep(cids, wallets, chains, holdings) ==
    \E cid \in cids, w \in wallets, b \in chains :
       \E l \in Lookups(cid, holdings) : VerifyAccess(cid, w, b, l[1], l[2], l[3])

GenerateStep(cids, wallets, levels, expirations, holdings) ==
    \E cid \in cids, w \in wallets, level \in levels, e \in expirations :
       \E l \in Lookups(cid, holdings) :
          GenerateAccessToken(cid, w, level, e, l[1], l[2], l[3])

VerifyTokenStep(tokens) ==
    \E t \in tokens : VerifyToken(t)

GetCommunityStatsStep(cids) ==
    \E cid \in cids : GetCommunityStats(cid)

GetMembersStep(cids, levels) ==
    \E cid \in cids, level \in levels : GetMembers(cid, level)

UnknownActionStep(names) ==
    \E action \in names : UnknownAction(action)

(***************************************************************************)
(* Membership and requirements: every handler with the clock standing      *)
(* still (no handler of this group reads the clock for a decision).        *)
(***************************************************************************)
NextMembers ==
    \/ CreateStep(Names \cup {""}, TokenAddresses \cup {None}, {5}, {"fungible"}, {None})
    \/ ConfigureStep(CommunityArgs, {None}, {NoNumber, <<10>>}, {None, "nft"}, {None})
    \/ AddMemberStep(Stored \cup {None}, Wallets \cup {None}, AccessLevels \cup {"owner"})
    \/ RemoveMemberStep(Stored \cup {None}, Wallets \cup {None})
    \/ CheckMemberStatusStep(Stored, Wallets)
    \/ VerifyAccessStep(Stored, {"w2"}, {"solana"}, {10})
    \/ GenerateStep(Stored, {"w2"}, {"member"}, {<<1>>}, {10})
    \/ VerifyTokenStep(issued)

SpecMembers == Init /\ [][NextMembers]_vars

(***************************************************************************)
(* Access verification: the cache, the counters and the clock.             *)
(***************************************************************************)
NextAccess ==
    \/ CreateStep(Names, TokenAddresses, {5}, TokenTypes, CollectionAddresses)
    \/ VerifyAccessStep(Stored \cup {None}, {"w2"}, {"solana"}, Holdings)
    \/ Tick

SpecAccess == Init /\ [][NextAccess]_vars

(***************************************************************************)
(* Access tokens: issue and validation over time.                          *)
(***************************************************************************)
NextTokens ==
    \/ CreateStep(Names, TokenAddresses, {5}, {"fungible"}, {None})
    \/ GenerateStep(Stored, {"w2"}, {"member", "admin"}, Expirations, {10})
    \/ VerifyTokenStep(issued \cup Forged \cup {Garbage})
    \/ Tick

SpecTokens == Init /\ [][NextTokens]_vars

(***************************************************************************)
(* The member short-circuit of verify_access: verifications before and     *)
(* after a wallet joins, under requirements that change.                   *)
(***************************************************************************)
NextShortcut ==
    \/ CreateStep(Names, TokenAddresses, {5}, {"fungible"}, {None})
    \/ ConfigureStep(Stored, {None}, {<<10>>}, {None}, {None})
    \/ AddMemberStep(Stored, {"w2"}, {"member"})
    \/ VerifyAccessStep(Stored, {"w2"}, {"solana"}, {2, 10})
    \/ Tick

SpecShortcut == Init /\ [][NextShortcut]_vars

(***************************************************************************)
(* Requirement updates, field by field, on a community that has a member   *)
(* and has counted a verification.                                         *)
(***************************************************************************)
NextConfigure ==
    \/ CreateStep(Names, TokenAddresses, {5}, {"fungible"}, {None})
    \/ ConfigureStep(Stored, {None, "", "mintB"}, {NoNumber, <<0>>},
                     {None, "", "nft"}, {None, "collB"})
    \/ AddMemberStep(Stored, {"w2"}, {"member"})
    \/ VerifyAccessStep(Stored, {"w2"}, {"solana"}, {5})

SpecConfigure == Init /\ [][NextConfigure]_vars

(***************************************************************************)
(* The counters: verifications made directly and on behalf of              *)
(* generate_access_token, against every kind of requirement, with          *)
(* communities created under one name at several instants.                 *)
(***************************************************************************)
NextStats ==
    \/ CreateStep(Names, TokenAddresses, {5}, {"fungible", "multi"}, {None})
    \/ VerifyAccessStep(Stored, {"w2"}, {"solana"}, {2, 5})
    \/ GenerateStep(Stored, {"w2"}, {"member"}, {<<300>>}, {2, 5})
    \/ Tick

SpecStats == Init /\ [][NextStats]_vars

(***************************************************************************)
(* Issue of credentials to a wallet that may or may not qualify.           *)
(***************************************************************************)
NextDeny ==
    \/ CreateStep(Names, TokenAddresses, {5}, {"fungible"}, {None})
    \/ ConfigureStep(Stored, {None}, {<<10>>}, {None}, {None})
    \/ GenerateStep(Stored, {"w2", None}, {"member"}, {<<300>>}, {2, 5})
    \/ Tick

SpecDeny == Init /\ [][NextDeny]_vars

(***************************************************************************)
(* Use of a credential while its holder (the caller wallet, admin of the   *)
(* communities it creates) changes role or leaves, and the requirements    *)
(* change.  Credentials are asked for by wallets enrolled at that time.    *)
(***************************************************************************)
\* The wallets that some stored community lists in one of its buckets.
Enrolled == {w \in Wallets : \E cid \in Stored : IsMember(communities[cid], w)}

NextRevoke ==
    \/ CreateStep(Names, TokenAddresses, {5}, {"fungible"}, {None})
    \/ ConfigureStep(Stored, {None}, {<<10>>}, {None}, {None})
    \/ AddMemberStep(Stored, {"w1"}, {"moderator"})
    \/ RemoveMemberStep(Stored, {"w1"})
    \/ GenerateStep(Stored, Enrolled, {"member"}, {<<300>>}, {5})
    \/ VerifyTokenStep(issued)
    \/ Tick

SpecRevoke == Init /\ [][NextRevoke]_vars

(***************************************************************************)
(* Requirements that change while verifications are cached: a 'multi'      *)
(* community is switched to 'fungible' with a threshold above the holdings *)
(* of the wallet.  The caller wallet is loaded, so that it is the admin    *)
(* of the communities it creates.                                          *)
(***************************************************************************)
InitLoaded == Init /\ _wallet_address = "w1"

NextStale ==
    \/ CreateStep(Names, TokenAddresses, {5}, {"multi"}, {None})
    \/ ConfigureStep(Stored, {None}, {<<10>>}, {"fungible"}, {None})
    \/ VerifyAccessStep(Stored, {"w2"}, {"solana"}, {5})
    \/ GenerateStep(Stored, {"w2"}, {"member"}, {<<300>>}, {5})
    \/ Tick

SpecStale == InitLoaded /\ [][NextStale]_vars

(***************************************************************************)
(* Asset transfers of the game asset manager.                              *)
(***************************************************************************)
GameIds == {None, "axie-infinity"}
AssetIds == {None, "asset1"}
Recipients == {None, "w2"}
Quantities == {1, 2, 3}
OwnedQuantities == {NoNumber, <<1>>, <<2>>}

NextTransfer ==
    \E g \in GameIds, a \in AssetIds, r \in Recipients, q \in Quantities,
       o \in OwnedQuantities : TransferAsset(g, a, r, q, o)

SpecTransfer == Init /\ [][NextTransfer]_vars

(***************************************************************************)
(* The whole tool behind its dispatcher: every action execute knows, and   *)
(* actions it does not know, at one instant.                               *)
(***************************************************************************)
Next ==
    \/ CreateStep(Names \cup {""}, TokenAddresses \cup {None}, {5}, {"fungible"},
                  CollectionAddresses \cup {None})
    \/ ConfigureStep(CommunityArgs, {None}, {<<10>>}, {None}, {None})
    \/ AddMemberStep(Stored, {"w2"}, {"member", "moderator"})
    \/ RemoveMemberStep(Stored, {"w2"})
    \/ CheckMemberStatusStep(Stored, {"w2"})
    \/ GetMembersStep(Stored, {None, "member"})
    \/ GetCommunityStatsStep(Stored \cup {None})
    \/ ListCommunities
    \/ VerifyAccessStep(CommunityArgs, {"w2", None}, {"solana"}, {2, 10})
    \/ GenerateStep(Stored, {"w2"}, {"member"}, {<<1>>, NoNumber}, {2, 10})
    \/ VerifyTokenStep(issued \cup {NoToken, Garbage})
    \/ UnknownActionStep({None, "delete_community"})

Spec == Init /\ [][Next]_vars

(***************************************************************************)
(* Properties.                                                             *)
(***************************************************************************)
Occurrences(s, x) == Cardinality({i \in 1..Len(s) : s[i] = x})

\* C1: in every community each wallet occurs at most once over the three
\* role buckets (at most one bucket, and at most once inside it).
C1_RoleExclusivity ==
    \A cid \in DOMAIN communities : \A w \in Wallets :
        LET m == communities[cid].members IN
        Occurrences(m["admins"], w) + Occurrences(m["moderators"], w)
            + Occurrences(m["members"], w) <= 1

\* The creator, admin at creation, has been moved to the moderators while
\* another wallet sits among the admins.
C1_Witness ==
    \E cid \in DOMAIN communities :
        /\ communities[cid].created_by = "w1"
        /\ InSeq("w1", communities[cid].members["moderators"])
        /\ InSeq("w2", communities[cid].members["admins"])

Stats(cs) == [cid \in DOMAIN cs |-> cs[cid].stats]

\* C2 as stated: a verify_access that repeats the previous call (same
\* community, wallet and blockchain, non-member wallet) less than
\* cache_expiration after that call returns the same envelope and leaves
\* the counters alone.
C2_Original ==
    [][ ( /\ now' = now
          /\ call.action = "verify_access"
          /\ call' = call
          /\ ret.status = "success"
          /\ ~IsMember(communities[call.community_id], call.wallet_address)
          /\ now - called_at < cache_expiration * TicksPerSecond )
        => (ret' = ret /\ Stats(communities') = Stats(communities)) ]_vars

\* C2, amended: the same, where the repeat comes less than cache_expiration
\* after the cached verification was computed (the cache entry's timestamp).
C2_CachedRepeat ==
    [][ ( /\ now' = now
          /\ call.action = "verify_access"
          /\ call' = call
          /\ ret.status = "success"
          /\ ~IsMember(communities[call.community_id], call.wallet_address)
          /\ LET key == cache_key_of(call.wallet_address, call.community_id,
                                     call.blockchain) IN
             /\ key \in DOMAIN verification_cache
             /\ now - verification_cache[key].timestamp
                    < cache_expiration * TicksPerSecond )
        => (ret' = ret /\ Stats(communities') = Stats(communities)
            /\ verification_cache' = verification_cache) ]_vars

\* The last verify_access ran after the cached entry was written and was
\* answered from it.
C2_Witness ==
    /\ call.action = "verify_access"
    /\ ret.status = "success"
    /\ call.community_id \in DOMAIN communities
    /\ ~IsMember(communities[call.community_id], call.wallet_address)
    /\ LET key == cache_key_of(call.wallet_address, call.community_id, call.blockchain) IN
       /\ key \in DOMAIN verification_cache
       /\ verification_cache[key].timestamp < called_at
       /\ ret.result = verification_cache[key].data
       /\ communities[call.community_id].stats.access_requests = 1

\* The fields of the credential last presented to verify_token.
Presented == JsonLoads(call.access_token.text)

IssuedFieldsReported ==
    /\ ret.status = "success"
    /\ ret.result.is_valid
    /\ ret.result.token_id = Presented["token_id"]
    /\ ret.result.community_id = Presented["community_id"]
    /\ ret.result.wallet_address = Presented["wallet_address"]
    /\ ret.result.access_level = Presented["access_level"]

\* C3 as stated: verify_token on an issued credential, before its expiration
\* has elapsed, succeeds, reports the issued fields, and reports
\* time_remaining_seconds equal to the expiration minus the elapsed time.
C3_Original ==
    ( /\ call.action = "verify_token"
      /\ call.access_token \in issued
      /\ called_at < Presented["expires_at"] )
    => /\ IssuedFieldsReported
       /\ ret.result.time_remaining_seconds * TicksPerSecond
              = Presented["expires_at"] - called_at

\* C3, amended: the same, with time_remaining_seconds equal to the time left
\* until expires_at truncated to whole seconds.
C3_RoundTrip ==
    ( /\ call.action = "verify_token"
      /\ call.access_token \in issued
      /\ called_at < Presented["expires_at"] )
    => /\ IssuedFieldsReported
       /\ LET left == Presented["expires_at"] - called_at
              r == ret.result.time_remaining_seconds IN
          r * TicksPerSecond <= left /\ left < (r + 1) * TicksPerSecond

\* An issued credential was verified some time after its issue, with a
\* fraction of a second among the time left.
C3_Witness ==
    /\ call.action = "verify_token"
    /\ call.access_token \in issued
    /\ ret.status = "success"
    /\ called_at > Presented["issued_at"]
    /\ (Presented["expires_at"] - called_at) % TicksPerSecond # 0

ExpiredError == Error("Access token has expired")

\* C4: a verify_token of an issued credential made later than its expires_at
\* fails with 'Access token has expired'.
C4_RejectedAfterExpiry ==
    ( /\ call.action = "verify_token"
      /\ call.access_token \in issued
      /\ called_at > Presented["expires_at"] )
    => ret = ExpiredError

\* C4: ... and an issued credential that verify_token rejects as expired is
\* rejected as expired from then on.
C4_TokenExpiry ==
    /\ []C4_RejectedAfterExpiry
    /\ [][ \A t \in issued :
             VerifyTokenResult(t) = ExpiredError => VerifyTokenResult(t)' = ExpiredError ]_vars

C4_Witness ==
    /\ call.action = "verify_token"
    /\ call.access_token \in issued
    /\ called_at > Presented["expires_at"]
    /\ ret = ExpiredError

\* C5: verify_token of a decodable payload whose token_id is not a key of the
\* token store fails with 'Invalid access token'.
C5_UnknownTokenRejected ==
    ( /\ call.action = "verify_token"
      /\ call.access_token.enc = "b64"
      /\ Get(Presented, "token_id", None) \notin DOMAIN access_tokens )
    => ret = Error("Invalid access token")

\* A well-formed payload for a stored community, with an expiry in the
\* future and an id that was never issued, was presented while a token was
\* in the store.
C5_Witness ==
    /\ call.action = "verify_token"
    /\ call.access_token.enc = "b64"
    /\ Presented["token_id"] = "sha256:forged"
    /\ Presented["community_id"] \in DOMAIN communities
    /\ Presented["expires_at"] > called_at
    /\ access_tokens # <<>>
    /\ ret = Error("Invalid access token")

\* C6: right after a successful add_member the wallet is in the bucket of the
\* requested level and in no other, and check_member_status reports that level.
C6_AddThenStatus ==
    (call.action = "add_member" /\ ret.status = "success")
    => LET cid == call.community_id
           w == call.wallet_address
           level == call.access_level
           m == communities[cid].members IN
       /\ \A i \in 1..Len(Roles) : InSeq(w, m[Roles[i]]) <=> Roles[i] = level \o "s"
       /\ CheckMemberStatusResult(cid, w).status = "success"
       /\ CheckMemberStatusResult(cid, w).result.access_level = level

\* The creator of the community, an admin so far, was re-added as a moderator.
C6_Witness ==
    /\ call.action = "add_member"
    /\ ret.status = "success"
    /\ call.wallet_address = "w1"
    /\ call.access_level = "moderator"
    /\ _wallet_address = "w1"
    /\ InSeq("w1", communities[call.community_id].members["moderators"])

\* C7: configure_requirements with a missing or unknown community_id returns
\* the not-found error and leaves the three stores as they were.
C7_ConfigureUnknown ==
    [][ ( /\ call'.action = "configure_requirements"
          /\ (Falsy(call'.community_id) \/ call'.community_id \notin DOMAIN communities) )
        => ( /\ ret' = Error("Community with ID " \o call'.community_id \o " not found")
             /\ UNCHANGED stores ) ]_vars

C7_Witness ==
    /\ call.action = "configure_requirements"
    /\ call.community_id = "community_0_missing"
    /\ call.min_token_amount = <<10>>
    /\ ret.status = "error"
    /\ communities # <<>>
    /\ _wallet_address = None

CallerIsAdmin(cid) ==
    /\ cid \in DOMAIN communities
    /\ ~Falsy(_wallet_address)
    /\ InSeq(_wallet_address, communities[cid].members["admins"])

\* C8: an add_member with level moderator or admin made while the caller
\* wallet is not loaded or not among the community's admins returns an
\* error (the authorization error when the community exists and a wallet
\* address is given) and leaves the communities as they were; so one that
\* succeeds was made by a loaded caller who was an admin.
C8_AddNeedsAdmin ==
    [][ ( /\ call'.action = "add_member"
          /\ call'.access_level \in {"moderator", "admin"}
          /\ ~CallerIsAdmin(call'.community_id) )
        => ( /\ ret'.status = "error"
             /\ UNCHANGED communities
             /\ (call'.community_id \in DOMAIN communities /\ ~Falsy(call'.wallet_address))
                  => ret' = Error("Only community admins can add moderators or admins") ) ]_vars

\* A loaded caller who is no longer an admin was refused.
C8_Witness ==
    /\ call.action = "add_member"
    /\ call.access_level = "admin"
    /\ _wallet_address = "w1"
    /\ call.community_id \in DOMAIN communities
    /\ ~InSeq("w1", communities[call.community_id].members["admins"])
    /\ ret = Error("Only community admins can add moderators or admins")

\* C9: configure_requirements on a stored community is refused, changing no
\* requirement, when a caller wallet is loaded and is not an admin; with no
\* caller wallet loaded it succeeds and the given fields are stored.
C9_ConfigureAdminCheck ==
    [][ ( /\ call'.action = "configure_requirements"
          /\ call'.community_id \in DOMAIN communities )
        => LET cid == call'.community_id
               admins == communities[cid].members["admins"] IN
           /\ (~Falsy(_wallet_address) /\ ~InSeq(_wallet_address, admins))
                => ( /\ ret' = Error("Only community admins can configure requirements")
                     /\ UNCHANGED communities )
           /\ Falsy(_wallet_address)
                => ( /\ ret'.status = "success"
                     /\ call'.min_token_amount # NoNumber
                          => communities'[cid].requirements.min_token_amount
                                = call'.min_token_amount[1]
                     /\ ~Falsy(call'.token_type)
                          => communities'[cid].requirements.token_type = call'.token_type ) ]_vars

\* A loaded caller who is not an admin of the community was refused.
C9_Witness ==
    /\ call.action = "configure_requirements"
    /\ call.community_id \in DOMAIN communities
    /\ call.min_token_amount = <<10>>
    /\ _wallet_address = "w1"
    /\ ret = Error("Only community admins can configure requirements")
    /\ communities[call.community_id].requirements.min_token_amount = 5

\* C10: a fresh verification (non-member, no unexpired cache entry) against
\* fungible requirements grants access iff the holdings looked up are at
\* least min_token_amount, and reports both numbers.
C10_FungibleThreshold ==
    [][ \A cid \in DOMAIN communities, w \in Wallets, b \in Blockchains, h \in Holdings :
          ( /\ call'.action = "verify_access"
            /\ call'.community_id = cid
            /\ call'.wallet_address = w
            /\ call'.blockchain = b
            /\ communities[cid].requirements.token_type = "fungible"
            /\ ~IsMember(communities[cid], w)
            /\ ~( /\ cache_key_of(w, cid, b) \in DOMAIN verification_cache
                  /\ now - verification_cache[cache_key_of(w, cid, b)].timestamp
                        < cache_expiration * TicksPerSecond )
            /\ VerifyAccess(cid, w, b, h, <<>>, FALSE) )
          => ( /\ ret'.status = "success"
               /\ ret'.result.has_access
                     <=> (h >= communities[cid].requirements.min_token_amount)
               /\ ret'.result.actual_amount = h
               /\ ret'.result.required_amount
                     = communities[cid].requirements.min_token_amount ) ]_vars

\* Holdings equal to the threshold were looked up and access was granted.
C10_Witness ==
    /\ call.action = "verify_access"
    /\ ret.status = "success"
    /\ "actual_amount" \in DOMAIN ret.result
    /\ ret.result.actual_amount = 5
    /\ ret.result.required_amount = 5
    /\ ret.result.has_access
    /\ ret.result.verification_time = format_timestamp(called_at)

\* w is listed in one of the three role buckets of c.
InSomeBucket(c, w) ==
    \E r \in {"admins", "moderators", "members"} : InSeq(w, c.members[r])

\* C11: verify_access for a wallet that is in a role bucket of the community
\* returns has_access = TRUE with the reason "Already a member", whatever
\* the holdings, the requirements and the cache hold, and leaves the
\* verification cache and every community (its counters included) unchanged.
C11_MemberShortCircuit ==
    [][ ( /\ now' = now
          /\ call'.action = "verify_access"
          /\ call'.community_id \in DOMAIN communities
          /\ InSomeBucket(communities[call'.community_id], call'.wallet_address) )
        => ( /\ ret' = Success([ community_id |-> call'.community_id,
                                 wallet_address |-> call'.wallet_address,
                                 has_access |-> TRUE,
                                 reason |-> "Already a member",
                                 verification_time |-> format_timestamp(now) ])
             /\ verification_cache' = verification_cache
             /\ communities' = communities ) ]_vars

\* A plain member was let in while the cache still holds the denial that was
\* written before the wallet joined.
C11_Witness ==
    /\ call.action = "verify_access"
    /\ ret.status = "success"
    /\ "reason" \in DOMAIN ret.result
    /\ ret.result.has_access
    /\ InSeq(call.wallet_address, communities[call.community_id].members["members"])
    /\ LET key == cache_key_of(call.wallet_address, call.community_id, call.blockchain) IN
       /\ key \in DOMAIN verification_cache
       /\ ~verification_cache[key].data.has_access
    /\ communities[call.community_id].stats.access_denied = 1

\* C12: every call through execute returns an envelope whose status is
\* 'success' or 'error', also when the operation raised; an action that is
\* not one of the eleven known ones returns the unknown-action error and
\* leaves the three stores unchanged.
C12_NoEscape ==
    /\ [](call.action # "none" => ret.status \in {"success", "error"})
    /\ [][ call'.action \notin KnownActions
            => ( /\ ret' = Error("Unknown token-gated community action: " \o call'.action)
                 /\ UNCHANGED stores ) ]_vars

\* generate_access_token was called with token_expiration = None by a wallet
\* that has access: the verification was counted, the addition raised, and
\* the caller got the error envelope of the except clause.
C12_Witness ==
    /\ call.action = "generate_access_token"
    /\ call.token_expiration = NoNumber
    /\ ret = Caught("generate_access_token", NoneAdded)
    /\ communities[call.community_id].stats.access_granted = 1
    /\ access_tokens = <<>>

\* C13: a generate_access_token call that gets as far as the verification
\* and finds it failed or has_access = FALSE returns 'Wallet does not have
\* access to this community' and leaves the token store unchanged; the token
\* store changes only in a generate_access_token call whose verification
\* reported has_access = TRUE.
C13_VerifiedBeforeIssue ==
    /\ [][ \A h \in Holdings :
            LET cid == call'.community_id
                w == call'.wallet_address
                v == VerifyAccessOutcome(cid, w, "solana", h, <<>>, FALSE).ret
                granted == v.status = "success" /\ v.result.has_access IN
            ( /\ now' = now
              /\ call'.action = "generate_access_token"
              /\ cid \in DOMAIN communities
              /\ w # None
              /\ GenerateAccessToken(cid, w, call'.access_level,
                                     call'.token_expiration, h, <<>>, FALSE) )
            => ( /\ ~granted
                    => ( /\ ret' = Error("Wallet does not have access to this community")
                         /\ access_tokens' = access_tokens )
                 /\ access_tokens' # access_tokens => granted ) ]_vars
    /\ [][ access_tokens' # access_tokens
            => (now' = now /\ call'.action = "generate_access_token") ]_vars

\* A wallet that was issued a token under the first threshold was refused
\* one after the threshold was raised above its holdings.
C13_Witness ==
    /\ call.action = "generate_access_token"
    /\ ret = Error("Wallet does not have access to this community")
    /\ access_tokens # <<>>
    /\ communities[call.community_id].stats.access_denied >= 1
    /\ communities[call.community_id].requirements.min_token_amount = 10

\* C18: an issued credential verifies successfully at every instant up to
\* and including its expires_at, whatever has been done to the community,
\* to the holder's membership and to the requirements in the meantime.
C18_NoRevocation ==
    \A t \in issued :
        now <= JsonLoads(t.text)["expires_at"]
            => /\ VerifyTokenResult(t).status = "success"
               /\ VerifyTokenResult(t).result.is_valid

\* A credential was verified successfully at its very expires_at, after its
\* holder had left the community and the threshold had been raised above
\* the holdings of the wallet.
C18_Witness ==
    /\ call.action = "verify_token"
    /\ call.access_token \in issued
    /\ ret.status = "success"
    /\ called_at = Presented["expires_at"]
    /\ LET c == communities[Presented["community_id"]] IN
       /\ ~InSomeBucket(c, Presented["wallet_address"])
       /\ c.requirements.min_token_amount = 10

ZeroStats ==
    [total_members |-> 0, access_requests |-> 0, access_granted |-> 0, access_denied |-> 0]

\* C14: create_community with an empty name, or with neither token_address
\* nor nft_collection_address, returns an error and leaves the community
\* store unchanged; otherwise it succeeds and files, under the id it
\* returns, a community with all four counters 0, empty moderators and
\* members, and the caller wallet (if one is loaded) as its only admin,
\* leaving every other community as it was.
C14_CreateValidation ==
    [][ ( now' = now /\ call'.action = "create_community" )
        => IF \/ Falsy(call'.community_name)
              \/ Falsy(call'.token_address) /\ Falsy(call'.nft_collection_address)
           THEN ret'.status = "error" /\ communities' = communities
           ELSE /\ ret'.status = "success"
                /\ LET cid == ret'.result.community_id IN
                   /\ DOMAIN communities' = DOMAIN communities \cup {cid}
                   /\ \A other \in DOMAIN communities \ {cid} :
                          communities'[other] = communities[other]
                   /\ communities'[cid].stats = ZeroStats
                   /\ communities'[cid].members["moderators"] = <<>>
                   /\ communities'[cid].members["members"] = <<>>
                   /\ communities'[cid].members["admins"]
                         = IF _wallet_address = None THEN <<>> ELSE <<_wallet_address>> ]_vars

\* A community gated by an NFT collection alone was created by a loaded
\* caller, who is its admin while total_members is 0.
C14_Witness ==
    /\ call.action = "create_community"
    /\ call.token_address = None
    /\ ret.status = "success"
    /\ communities[ret.result.community_id].members["admins"] = <<"w1">>
    /\ communities[ret.result.community_id].stats.total_members = 0

\* C15: a successful create_community returns an id that was not in the
\* store, so the store grows by exactly one community.
C15_UniqueId ==
    [][ ( now' = now /\ call'.action = "create_community" /\ ret'.status = "success" )
        => ( /\ ret'.result.community_id \notin DOMAIN communities
             /\ Cardinality(DOMAIN communities')
                   = Cardinality(DOMAIN communities) + 1 ) ]_vars

\* C16: no step lowers access_requests, access_granted or access_denied of a
\* community.
C16_CountersMonotone ==
    [][ \A cid \in DOMAIN communities :
          /\ cid \in DOMAIN communities'
          /\ communities'[cid].stats.access_requests >= communities[cid].stats.access_requests
          /\ communities'[cid].stats.access_granted >= communities[cid].stats.access_granted
          /\ communities'[cid].stats.access_denied >= communities[cid].stats.access_denied ]_vars

\* C17: a verify_access that verifies afresh (known community, wallet in no
\* bucket, no cache entry younger than cache_expiration) adds 1 to
\* access_requests and 1 to access_granted or to access_denied, according to
\* the has_access it returns; and access_requests = access_granted +
\* access_denied in every community, always.
C17_StatsBalance ==
    /\ [][ LET cid == call'.community_id
               w == call'.wallet_address
               key == cache_key_of(w, cid, call'.blockchain) IN
           ( /\ now' = now
             /\ call'.action = "verify_access"
             /\ cid \in DOMAIN communities
             /\ w # None
             /\ ~InSomeBucket(communities[cid], w)
             /\ ~( /\ key \in DOMAIN verification_cache
                   /\ now - verification_cache[key].timestamp
                         < cache_expiration * TicksPerSecond ) )
           => LET old == communities[cid].stats
                  new == communities'[cid].stats
                  g == IF ret'.result.has_access THEN 1 ELSE 0 IN
              /\ ret'.status = "success"
              /\ new.access_requests = old.access_requests + 1
              /\ new.access_granted = old.access_granted + g
              /\ new.access_denied = old.access_denied + (1 - g) ]_vars
    /\ [](\A cid \in DOMAIN communities :
            communities[cid].stats.access_requests
                = communities[cid].stats.access_granted
                    + communities[cid].stats.access_denied)

\* A community has counted a grant and a denial, the denial in the
\* verify_access call just made.
C17_Witness ==
    /\ call.action = "verify_access"
    /\ ret.status = "success"
    /\ ~ret.result.has_access
    /\ communities[call.community_id].stats.access_requests = 2
    /\ communities[call.community_id].stats.access_granted = 1
    /\ communities[call.community_id].stats.access_denied = 1

\* The community of the configure_requirements call is as before except for
\* its requirements.
OnlyRequirementsChange ==
    /\ DOMAIN communities' = DOMAIN communities
    /\ \A cid \in DOMAIN communities :
          communities'[cid] = [communities[cid] EXCEPT
                                 !.requirements = communities'[cid].requirements]
    /\ \A cid \in DOMAIN communities \ {call'.community_id} :
          communities'[cid] = communities[cid]

\* C19 as stated: after a successful configure_requirements each of the four
\* fields has its previous value if the argument was null and the
\* argument's value otherwise, and nothing else in the community changed.
C19_Original ==
    [][ ( /\ now' = now
          /\ call'.action = "configure_requirements"
          /\ ret'.status = "success" )
        => LET old == communities[call'.community_id].requirements
               new == communities'[call'.community_id].requirements IN
           /\ new.token_type = IF call'.token_type = None THEN old.token_type
                                ELSE call'.token_type
           /\ new.token_address = IF call'.token_address = None THEN old.token_address
                                   ELSE call'.token_address
           /\ new.nft_collection_address
                 = IF call'.nft_collection_address = None THEN old.nft_collection_address
                   ELSE call'.nft_collection_address
           /\ new.min_token_amount
                 = IF call'.min_token_amount = NoNumber THEN old.min_token_amount
                   ELSE call'.min_token_amount[1]
           /\ OnlyRequirementsChange ]_vars

\* C19, amended: token_type, token_address and nft_collection_address keep
\* their previous value when the argument is null or the empty string and
\* take the argument's value otherwise; min_token_amount keeps its previous
\* value when the argument is null and takes it otherwise (0 included);
\* nothing else in the community changes.
C19_PartialUpdate ==
    [][ ( /\ now' = now
          /\ call'.action = "configure_requirements"
          /\ ret'.status = "success" )
        => LET old == communities[call'.community_id].requirements
               new == communities'[call'.community_id].requirements IN
           /\ new.token_type = IF call'.token_type \in {None, ""} THEN old.token_type
                                ELSE call'.token_type
           /\ new.token_address = IF call'.token_address \in {None, ""}
                                   THEN old.token_address
                                   ELSE call'.token_address
           /\ new.nft_collection_address
                 = IF call'.nft_collection_address \in {None, ""}
                   THEN old.nft_collection_address
                   ELSE call'.nft_collection_address
           /\ new.min_token_amount
                 = IF call'.min_token_amount = NoNumber THEN old.min_token_amount
                   ELSE call'.min_token_amount[1]
           /\ OnlyRequirementsChange ]_vars

\* A configure_requirements that passed a new collection and threshold 0 and
\* nulls for the rest went through on a community with a member and a
\* counted verification.
C19_Witness ==
    /\ call.action = "configure_requirements"
    /\ ret.status = "success"
    /\ call.token_type = None
    /\ call.token_address = None
    /\ call.nft_collection_address = "collB"
    /\ call.min_token_amount = <<0>>
    /\ LET c == communities[call.community_id] IN
       /\ c.requirements = [ token_type |-> "nft", token_address |-> "mintB",
                             min_token_amount |-> 0,
                             nft_collection_address |-> "collB" ]
       /\ c.members["members"] = <<"w2">>
       /\ c.stats.access_requests = 1

\* The bucket of c that lists w, or None.
BucketOf(c, w) ==
    IF InSeq(w, c.members["admins"]) THEN "admins"
    ELSE IF InSeq(w, c.members["moderators"]) THEN "moderators"
    ELSE IF InSeq(w, c.members["members"]) THEN "members"
    ELSE None

\* What add_member(cid, w, level) has done to the buckets of the community,
\* according to the bucket that listed w before the call: nothing (with
\* success) for the requested bucket, a move for another bucket, and an
\* append (or a refusal that changes nothing) for a wallet in no bucket.
AddEffect(cid, w, level) ==
    LET old == communities[cid].members
        new == communities'[cid].members
        from == BucketOf(communities[cid], w)
        to == level \o "s" IN
    IF from = to THEN ret'.status = "success" /\ new = old
    ELSE IF from = None /\ ret'.status # "success" THEN new = old
    ELSE /\ new[to] = Append(old[to], w)
         /\ \A r \in {"admins", "moderators", "members"} \ {to} :
               /\ ~InSeq(w, new[r])
               /\ r # from => new[r] = old[r]
         /\ TotalMembers(new) = TotalMembers(old) + (IF from = None THEN 1 ELSE 0)

\* C20 as stated: add_member with a wallet and one of the three levels on a
\* stored community succeeds and leaves the buckets unchanged when the
\* wallet is already in the requested one, moves the wallet when it is in
\* another one (total unchanged), and appends it (total grows by one) or
\* changes nothing when it is in none.
C20_Original ==
    [][ ( /\ now' = now
          /\ call'.action = "add_member"
          /\ call'.community_id \in DOMAIN communities
          /\ call'.wallet_address \in Wallets
          /\ call'.access_level \in AccessLevels )
        => AddEffect(call'.community_id, call'.wallet_address, call'.access_level) ]_vars

\* C20, amended: the same for the calls that pass the authorization check
\* (access_level 'member', or a caller wallet that is loaded and is an admin
\* of the community); these calls all succeed.
C20_AddIdempotentMove ==
    [][ ( /\ now' = now
          /\ call'.action = "add_member"
          /\ call'.community_id \in DOMAIN communities
          /\ call'.wallet_address \in Wallets
          /\ call'.access_level \in AccessLevels
          /\ \/ call'.access_level = "member"
             \/ /\ _wallet_address # None
                /\ InSeq(_wallet_address,
                         communities[call'.community_id].members["admins"]) )
        => /\ ret'.status = "success"
           /\ AddEffect(call'.community_id, call'.wallet_address,
                        call'.access_level) ]_vars

\* The second of two plain members was added as a member again: the call
\* succeeded and the bucket still lists the two in their order.
C20_Witness ==
    /\ call.action = "add_member"
    /\ call.access_level = "member"
    /\ call.community_id \in DOMAIN communities
    /\ ret.status = "success"
    /\ ret.result.message = "Wallet is already a member of this community"
    /\ Len(communities[call.community_id].members["members"]) = 2
    /\ communities[call.community_id].members["members"][1] = call.wallet_address

\* C21: a verify_access for a wallet in no bucket, made when the cache holds
\* an entry under its key that is cache_expiration old or older, looks the
\* holdings up afresh, counts the request and its outcome, and replaces the
\* entry under the same key by the new result with the current timestamp;
\* and no step ever takes a key out of the verification cache.
C21_BypassNotEvict ==
    /\ [][ DOMAIN verification_cache \subseteq DOMAIN verification_cache' ]_vars
    /\ [][ LET cid == call'.community_id
               w == call'.wallet_address
               key == cache_key_of(w, cid, call'.blockchain) IN
           ( /\ now' = now
             /\ call'.action = "verify_access"
             /\ cid \in DOMAIN communities
             /\ w # None
             /\ ~InSomeBucket(communities[cid], w)
             /\ key \in DOMAIN verification_cache
             /\ now - verification_cache[key].timestamp
                    >= cache_expiration * TicksPerSecond )
           => LET old == communities[cid].stats
                  new == communities'[cid].stats
                  g == IF ret'.result.has_access THEN 1 ELSE 0 IN
              /\ ret'.status = "success"
              /\ lookups' = lookups + 1
              /\ new.access_requests = old.access_requests + 1
              /\ new.access_granted = old.access_granted + g
              /\ new.access_denied = old.access_denied + (1 - g)
              /\ DOMAIN verification_cache' = DOMAIN verification_cache
              /\ verification_cache'[key] = [timestamp |-> now, data |-> ret'.result]
              /\ ret'.result.verification_time = format_timestamp(now) ]_vars

\* An entry written at the first instant was found cache_expiration old by
\* the last verify_access, which replaced it by a result that differs.
C21_Witness ==
    /\ call.action = "verify_access"
    /\ ret.status = "success"
    /\ call.community_id \in DOMAIN communities
    /\ called_at = cache_expiration * TicksPerSecond
    /\ LET key == cache_key_of(call.wallet_address, call.community_id, call.blockchain)
           c == communities[call.community_id] IN
       /\ key \in DOMAIN verification_cache
       /\ verification_cache[key] = [timestamp |-> called_at, data |-> ret.result]
       /\ c.created_at = format_timestamp(0)
       /\ c.stats.access_requests = 2
       /\ c.stats.access_granted = 1
       /\ c.stats.access_denied = 1

\* C22: get_community_stats on a stored community reports admin_count,
\* moderator_count and member_count equal to the sizes of the three buckets
\* and total_members equal to their sum, stores that total in the
\* community's stats, and changes nothing else: no bucket, no access
\* counter, no other community.
C22_StatsRecount ==
    [][ LET cid == call'.community_id IN
        ( /\ now' = now
          /\ call'.action = "get_community_stats"
          /\ cid \in DOMAIN communities )
        => LET m == communities[cid].members
               total == Len(m["admins"]) + Len(m["moderators"]) + Len(m["members"])
               s == ret'.result.stats IN
           /\ ret'.status = "success"
           /\ s.admin_count = Len(m["admins"])
           /\ s.moderator_count = Len(m["moderators"])
           /\ s.member_count = Len(m["members"])
           /\ s.total_members = total
           /\ s.access_requests = communities[cid].stats.access_requests
           /\ s.access_granted = communities[cid].stats.access_granted
           /\ s.access_denied = communities[cid].stats.access_denied
           /\ communities' = [communities EXCEPT ![cid].stats.total_members = total]
           /\ UNCHANGED <<access_tokens, verification_cache>> ]_vars

\* The statistics were read for a community with an admin, a moderator and
\* a counted verification, and the stored total is the one reported.
C22_Witness ==
    /\ call.action = "get_community_stats"
    /\ ret.status = "success"
    /\ ret.result.stats.admin_count = 1
    /\ ret.result.stats.moderator_count = 1
    /\ ret.result.stats.member_count = 0
    /\ ret.result.stats.total_members = 2
    /\ ret.result.stats.access_requests = 1
    /\ communities[call.community_id].stats.total_members = 2

\* C23: a verify_access whose community_id is missing or is not the id of a
\* stored community, or whose wallet_address is missing, returns an error
\* envelope and leaves the three stores as they were: no counter moves, no
\* cache entry is written, and no holdings are looked up.
C23_VerifyRejects ==
    [][ ( /\ now' = now
          /\ call'.action = "verify_access"
          /\ \/ call'.community_id \notin DOMAIN communities
             \/ call'.wallet_address \in {None, ""} )
        => /\ ret'.status = "error"
           /\ ret' = IF call'.community_id \notin DOMAIN communities
                     THEN Error("Community with ID " \o call'.community_id \o " not found")
                     ELSE Error("Wallet address is required")
           /\ UNCHANGED <<communities, verification_cache, access_tokens, lookups>> ]_vars

\* A verify_access without a wallet was turned away by a community that had
\* counted and cached a verification before.
C23_Witness ==
    /\ call.action = "verify_access"
    /\ call.community_id \in DOMAIN communities
    /\ call.wallet_address = None
    /\ ret = Error("Wallet address is required")
    /\ communities[call.community_id].stats.access_requests = 1
    /\ DOMAIN verification_cache # {}

\* A verify_access for an id that was never created was turned away while a
\* community was stored.
C23_WitnessUnknown ==
    /\ call.action = "verify_access"
    /\ call.community_id = "community_0_missing"
    /\ ret.status = "error"
    /\ DOMAIN communities # {}

\* C24: whenever verify_token accepts a credential, the token_id it reports
\* is a key of the token store and the community_id, wallet_address,
\* access_level and expiry it reports are those of the record stored under
\* that key, and the call was made no later than that record's expires_at.
C24_StoredFieldsReported ==
    ( /\ call.action = "verify_token"
      /\ ret.status = "success" )
    => /\ ret.result.token_id \in DOMAIN access_tokens
       /\ LET stored == access_tokens[ret.result.token_id] IN
          /\ ret.result.community_id = stored.community_id
          /\ ret.result.wallet_address = stored.wallet_address
          /\ ret.result.access_level = stored.access_level
          /\ ret.result.expires_at = format_timestamp(stored.expires_at)
          /\ called_at <= stored.expires_at

\* C25: an add_member made while the caller wallet is not an admin of the
\* community (or while no wallet is loaded) leaves every wallet that is in
\* the admins or the moderators bucket in that bucket.
C25_NoDemotionByOthers ==
    [][ LET cid == call'.community_id IN
        ( /\ now' = now
          /\ call'.action = "add_member"
          /\ cid \in DOMAIN communities
          /\ ~( /\ _wallet_address # None
                /\ InSeq(_wallet_address, communities[cid].members["admins"]) ) )
        => \A r \in {"admins", "moderators"} : \A w \in Wallets :
              InSeq(w, communities[cid].members[r])
                 => InSeq(w, communities'[cid].members[r]) ]_vars

\* C26: when generate_access_token succeeds for a wallet that is not in the
\* admins bucket of the community, verify_token reports the credential it
\* returned with an access_level that is one of member, moderator and admin
\* and is neither 'admin' nor 'moderator'.
C26_LevelWithinStanding ==
    [][ ( /\ now' = now
          /\ call'.action = "generate_access_token"
          /\ ret'.status = "success"
          /\ ~InSeq(call'.wallet_address,
                    communities[call'.community_id].members["admins"]) )
        => \A t \in issued' :
              (t = ret'.result.access_token /\ VerifyTokenResult(t)'.status = "success")
                 => /\ VerifyTokenResult(t)'.result.access_level \in AccessLevels
                    /\ VerifyTokenResult(t)'.result.access_level
                          \notin {"admin", "moderator"} ]_vars

\* The cache entry of the verify_access or generate_access_token call being
\* made is younger than cache_expiration, and its wallet is in no bucket.
StaleWindow(blockchain) ==
    LET cid == call'.community_id
        w == call'.wallet_address
        key == cache_key_of(w, cid, blockchain) IN
    /\ cid \in DOMAIN communities
    /\ w # None
    /\ ~InSomeBucket(communities[cid], w)
    /\ key \in DOMAIN verification_cache
    /\ now - verification_cache[key].timestamp < cache_expiration * TicksPerSecond

\* C27: configure_requirements leaves the verification cache as it is; a
\* verify_access for a wallet in no bucket whose cache entry is younger than
\* cache_expiration returns that entry's result, whatever the requirements
\* have become since it was computed, without a lookup and without counting;
\* and a generate_access_token made in that window issues a credential
\* exactly when that cached result has has_access, again without a lookup.
C27_StaleAfterConfigure ==
    /\ [][ (now' = now /\ call'.action = "configure_requirements")
           => verification_cache' = verification_cache ]_vars
    /\ [][ (now' = now /\ call'.action = "verify_access"
                /\ StaleWindow(call'.blockchain))
           => LET key == cache_key_of(call'.wallet_address, call'.community_id,
                                      call'.blockchain) IN
              /\ ret' = Success(verification_cache[key].data)
              /\ UNCHANGED <<communities, verification_cache, lookups>> ]_vars
    /\ [][ (now' = now /\ call'.action = "generate_access_token"
                /\ call'.token_expiration # NoNumber
                /\ StaleWindow("solana"))
           => LET key == cache_key_of(call'.wallet_address, call'.community_id,
                                      "solana") IN
              /\ (ret'.status = "success") <=> verification_cache[key].data.has_access
              /\ ret'.status = "success" => ret'.result.access_token \in issued'
              /\ UNCHANGED <<communities, verification_cache, lookups>> ]_vars

\* A credential was issued on the strength of a cached 'multi' verification
\* after the community had been switched to 'fungible' with a threshold of
\* 10, above the 5 tokens the wallet holds: the community has counted that
\* one verification and no other.
C27_Witness ==
    /\ call.action = "generate_access_token"
    /\ ret.status = "success"
    /\ call.community_id \in DOMAIN communities
    /\ LET c == communities[call.community_id]
           key == cache_key_of(call.wallet_address, call.community_id, "solana") IN
       /\ c.requirements.token_type = "fungible"
       /\ c.requirements.min_token_amount = 10
       /\ key \in DOMAIN verification_cache
       /\ "requirements" \in DOMAIN verification_cache[key].data
       /\ verification_cache[key].data.has_access
       /\ verification_cache[key].timestamp < called_at
       /\ c.stats.access_requests = 1
       /\ lookups = 1

\* A verify_access was answered from the cached 'multi' verification after
\* that switch; the payload shows the requirements as they are now.
C27_WitnessSwitched ==
    /\ call.action = "verify_access"
    /\ ret.status = "success"
    /\ call.community_id \in DOMAIN communities
    /\ LET c == communities[call.community_id]
           key == cache_key_of(call.wallet_address, call.community_id, call.blockchain) IN
       /\ c.requirements.token_type = "fungible"
       /\ c.requirements.min_token_amount = 10
       /\ key \in DOMAIN verification_cache
       /\ ret.result = verification_cache[key].data
       /\ ret.result.has_access
       /\ "requirements" \in DOMAIN ret.result
       /\ Shown(ret.result).requirements = c.requirements
       /\ verification_cache[key].timestamp < called_at
       /\ c.stats.access_requests = 1

\* C28: the total_members that list_communities reports for each community
\* is the number of wallets in its admins, moderators and members buckets.
C28_ListedTotal ==
    ( /\ call.action = "list_communities"
      /\ ret.status = "success" )
    => \A e \in ret.result.communities :
          /\ e.id \in DOMAIN communities
          /\ e.total_members = TotalMembers(communities[e.id].members)

NeverForIssued == { Error("Invalid access token"), Error("Community no longer exists") }

\* C29: every record of the token store is stored under its own token_id and
\* names a stored community; no step takes a key out of the token store or
\* out of the community store; and verify_token, at any time, answers an
\* issued credential with neither 'Invalid access token' nor 'Community no
\* longer exists'.
C29_TokensStayValid ==
    /\ [](\A k \in DOMAIN access_tokens :
             /\ access_tokens[k].token_id = k
             /\ access_tokens[k].community_id \in DOMAIN communities)
    /\ [](\A t \in issued : VerifyTokenResult(t) \notin NeverForIssued)
    /\ []((call.action = "verify_token" /\ call.access_token \in issued)
             => ret \notin NeverForIssued)
    /\ [][ /\ DOMAIN access_tokens \subseteq DOMAIN access_tokens'
           /\ DOMAIN communities \subseteq DOMAIN communities' ]_vars

\* An issued credential was presented well after its expiry and was turned
\* away as expired, not as unknown: its record and its community are still
\* in their stores.
C29_Witness ==
    /\ call.action = "verify_token"
    /\ call.access_token \in issued
    /\ ret = Error("Access token has expired")
    /\ called_at > Presented["expires_at"] + 1
    /\ Presented["token_id"] \in DOMAIN access_tokens
    /\ access_tokens[Presented["token_id"]].community_id \in DOMAIN communities

\* The preconditions of the transfer_asset call last made.
TransferAllowed ==
    /\ _wallet_address \notin {None, ""}
    /\ call.game_id \notin {None, ""}
    /\ call.asset_id \notin {None, ""}
    /\ call.recipient_address \notin {None, ""}
    /\ call.owned # NoNumber
    /\ call.owned[1] >= call.quantity

\* C30: transfer_asset with a wallet loaded, with game_id, asset_id and
\* recipient_address present and with the asset held in at least the
\* requested quantity returns a success envelope whose result has status
\* 'completed', the requested quantity, the caller as sender and the given
\* recipient; it returns an error envelope exactly when one of these
\* conditions fails.
C30_TransferContract ==
    call.action = "transfer_asset"
    => /\ ret.status \in {"success", "error"}
       /\ (ret.status = "error") <=> ~TransferAllowed
       /\ ret.status = "success"
             => /\ ret.result.status = "completed"
                /\ ret.result.quantity = call.quantity
                /\ ret.result.sender = _wallet_address
                /\ ret.result.recipient = call.recipient_address
====
